---- MODULE Spec2Model ----
(***************************************************************************)
(* Pattern generators and category registry of src/model/regexPatterns.js. *)
(*                                                                         *)
(* A JavaScript string is modelled as a sequence of one-character strings, *)
(* so a pattern is built, concatenated and anchored exactly as the source  *)
(* builds it, and a pattern is given its meaning by compiling it (Compile, *)
(* the RegExp constructor) and running it on a subject string (Test,       *)
(* RegExp.prototype.test), never by reading the generator's intent.        *)
(***************************************************************************)
EXTENDS Integers, Sequences, FiniteSets, TLC

VARIABLES registry, key, passed, arg, outcome, result, prev, regex, subject, matched, pc

vars == <<registry, key, passed, arg, outcome, result, prev, regex, subject, matched, pc>>

(***************************************************************************)
(* Characters.  Ascii lists the printable characters in code-point order,  *)
(* which is what a class range such as a-z is defined on (the grave accent *)
(* is left out: no pattern and no subject uses it).                        *)
(***************************************************************************)
Ascii ==
  <<" ", "!", "\"", "#", "$", "%", "&", "'", "(", ")", "*", "+", ",", "-", ".", "/",
    "0", "1", "2", "3", "4", "5", "6", "7", "8", "9", ":", ";", "<", "=", ">", "?", "@",
    "A", "B", "C", "D", "E", "F", "G", "H", "I", "J", "K", "L", "M", "N", "O", "P", "Q",
    "R", "S", "T", "U", "V", "W", "X", "Y", "Z", "[", "\\", "]", "^", "_",
    "a", "b", "c", "d", "e", "f", "g", "h", "i", "j", "k", "l", "m", "n", "o", "p", "q",
    "r", "s", "t", "u", "v", "w", "x", "y", "z", "{", "|", "}", "~">>

AsciiSet == {Ascii[i] : i \in 1..Len(Ascii)}

CodeOf == [c \in AsciiSet |-> CHOOSE i \in 1..Len(Ascii) : Ascii[i] = c]

CharRange(a, b) == {c \in AsciiSet : CodeOf[a] <= CodeOf[c] /\ CodeOf[c] <= CodeOf[b]}

DigitChars == CharRange("0", "9")

LowerChars == CharRange("a", "z")

\* Canonicalize of a non-unicode ignoreCase match: the character's upper case.
Canonicalize(c) ==
  IF c \in LowerChars THEN Ascii[CodeOf[c] - (CodeOf["a"] - CodeOf["A"])] ELSE c

DigitValue(c) == CodeOf[c] - CodeOf["0"]

(***************************************************************************)
(* The options argument of a generator call: either no argument at all     *)
(* (undefined) or a record from option ids to booleans.                    *)
(***************************************************************************)
EmptyRecord == [id \in {} |-> TRUE]

NoOptions == [present |-> FALSE, value |-> EmptyRecord]

Given(rec) == [present |-> TRUE, value |-> rec]

\* The default parameter `options = {}`.
DefaultParam(a) == IF a.present THEN a.value ELSE EmptyRecord

\* `if (options.id)`: a missing property reads undefined, which is falsy.
Truthy(options, id) == id \in DOMAIN options /\ options[id] = TRUE

\* The template literal `^${pattern}$`.
Anchored(pattern) == <<"^">> \o pattern \o <<"$">>

(***************************************************************************)
(* The pattern generators.  Each returns {pattern, flags}.                 *)
(***************************************************************************)
EmailBase ==
    <<"[", "a", "-", "z", "A", "-", "Z", "0", "-", "9", ".", "_", "%", "+", "-", "]",
      "+", "@", "[", "a", "-", "z", "A", "-", "Z", "0", "-", "9", ".", "-", "]", "+",
      "\\", ".", "[", "a", "-", "z", "A", "-", "Z", "]", "{", "2", ",", "6", "3",
      "}">>

EmailSubdomains ==
    <<"[", "a", "-", "z", "A", "-", "Z", "0", "-", "9", ".", "_", "%", "+", "-", "]",
      "+", "@", "[", "a", "-", "z", "A", "-", "Z", "0", "-", "9", ".", "-", "]", "+",
      "\\", ".", "[", "a", "-", "z", "A", "-", "Z", "]", "{", "2", ",", "6", "3",
      "}", "(", "\\", ".", "[", "a", "-", "z", "A", "-", "Z", "]", "{", "2", "}",
      ")", "?">>

generateEmailRegex(a) ==
  LET options == DefaultParam(a)
      flags == <<"i">>
      pattern == IF Truthy(options, "allowSubdomains") THEN EmailSubdomains ELSE EmailBase
  IN  [pattern |-> Anchored(pattern), flags |-> flags]

\* Either separator accepted at every separator position.
CPFOptionalAnySeparator ==
    <<"\\", "d", "{", "3", "}", "[", ".", "-", "]", "?", "\\", "d", "{", "3", "}", "[", ".", "-", "]", "?", "\\", "d", "{", "3", "}", "[", ".", "-", "]", "?", "\\", "d", "{", "2", "}">>

CPFOptional ==
    <<"\\", "d", "{", "3", "}", "\\", ".", "?", "\\", "d", "{", "3", "}", "\\", ".",
      "?", "\\", "d", "{", "3", "}", "-", "?", "\\", "d", "{", "2", "}">>

CPFStrict ==
    <<"\\", "d", "{", "3", "}", "\\", ".", "\\", "d", "{", "3", "}", "\\", ".", "\\",
      "d", "{", "3", "}", "-", "\\", "d", "{", "2", "}">>

\* flags as a variable shared by the generators: what the last call left in it.
generateCPFRegexSharedFlags(a) ==
  LET options == DefaultParam(a)
      flags == result.flags
      pattern == IF Truthy(options, "allowOptionalSymbols") THEN CPFOptional ELSE CPFStrict
  IN  [pattern |-> Anchored(pattern), flags |-> flags]

generateCPFRegex(a) ==
  LET options == DefaultParam(a)
      flags == <<>>
      pattern == IF Truthy(options, "allowOptionalSymbols") THEN CPFOptional ELSE CPFStrict
  IN  [pattern |-> Anchored(pattern), flags |-> flags]

\* The relaxed form as the bare digits only.
CEPOptionalNoHyphen == <<"\\", "d", "{", "8", "}">>

CEPOptional ==
    <<"\\", "d", "{", "5", "}", "-", "?", "\\", "d", "{", "3", "}">>

CEPStrict ==
    <<"\\", "d", "{", "5", "}", "-", "\\", "d", "{", "3", "}">>

\* The relaxed form chosen when any option at all is set.
generateCEPRegexAnyOption(a) ==
  LET options == DefaultParam(a)
      flags == <<>>
      pattern == IF \E id \in DOMAIN options : options[id] = TRUE THEN CEPOptional ELSE CEPStrict
  IN  [pattern |-> Anchored(pattern), flags |-> flags]

generateCEPRegex(a) ==
  LET options == DefaultParam(a)
      flags == <<>>
      pattern == IF Truthy(options, "allowOptionalSymbols") THEN CEPOptional ELSE CEPStrict
  IN  [pattern |-> Anchored(pattern), flags |-> flags]

uuidPattern ==
    <<"[", "0", "-", "9", "a", "-", "f", "]", "{", "8", "}", "-", "[", "0", "-", "9",
      "a", "-", "f", "]", "{", "4", "}", "-", "4", "[", "0", "-", "9", "a", "-", "f",
      "]", "{", "3", "}", "-", "[", "8", "9", "a", "b", "]", "[", "0", "-", "9", "a",
      "-", "f", "]", "{", "3", "}", "-", "[", "0", "-", "9", "a", "-", "f", "]", "{",
      "1", "2", "}">>

\* The function declares no parameter: whatever it is called with is ignored.
generateUUIDRegex ==
  LET flags == <<"i">>
      pattern == uuidPattern
  IN  [pattern |-> Anchored(pattern), flags |-> flags]

\* An octet as any one to three digits.
octetAnyDigits == <<"(", "?", ":", "\\", "d", "{", "1", ",", "3", "}", ")">>

octet ==
    <<"(", "?", ":", "2", "5", "[", "0", "-", "5", "]", "|", "2", "[", "0", "-", "4",
      "]", "\\", "d", "|", "1", "\\", "d", "{", "2", "}", "|", "[", "1", "-", "9",
      "]", "?", "\\", "d", ")">>

IPv4Dot == <<"\\", ".">>

IPv4Address == octet \o IPv4Dot \o octet \o IPv4Dot \o octet \o IPv4Dot \o octet

\* A prefix length as any one or two digits.
IPv4CidrSuffixAnyTwoDigits == <<"(", "?", ":", "/", "\\", "d", "{", "1", ",", "2", "}", ")", "?">>

\* In the template literal the escape \/ is the character /.
IPv4CidrSuffix ==
    <<"(", "?", ":", "/", "(", "?", ":", "[", "0", "-", "9", "]", "|", "[", "1", "2",
      "]", "[", "0", "-", "9", "]", "|", "3", "[", "0", "-", "2", "]", ")", ")", "?">>

\* The anchors put on before the CIDR suffix is appended.
generateIPv4RegexAnchoredFirst(a) ==
  LET options == DefaultParam(a)
      pattern == IF Truthy(options, "allowCIDR")
                 THEN Anchored(IPv4Address) \o IPv4CidrSuffix
                 ELSE Anchored(IPv4Address)
      flags == <<>>
  IN  [pattern |-> pattern, flags |-> flags]

generateIPv4Regex(a) ==
  LET options == DefaultParam(a)
      pattern == IF Truthy(options, "allowCIDR")
                 THEN IPv4Address \o IPv4CidrSuffix
                 ELSE IPv4Address
      flags == <<>>
  IN  [pattern |-> Anchored(pattern), flags |-> flags]

(***************************************************************************)
(* The registry.  A generator reference is modelled by the function's name *)
(* and called through Apply.                                               *)
(***************************************************************************)
Criterion(id, label, default) ==
  [id |-> id, label |-> label, type |-> "checkbox", default |-> default]

\* The registry without its last entry.
CategoryKeysWithoutIPv4 == {"email", "cpf", "cep", "uuid"}

\* The keys of the RegexCategories object literal.
CategoryKeys == {"email", "cpf", "cep", "uuid", "ipv4"}

RegexCategories ==
  [k \in CategoryKeys |->
     CASE k = "email" ->
            [name |-> "E-mail", generator |-> "generateEmailRegex",
             criteria |-> <<Criterion("allowSubdomains",
                                      "Permitir subdomínios (.ex: \".com\" , \".com.br\")", FALSE)>>]
       [] k = "cpf" ->
            [name |-> "CPF (Formato)", generator |-> "generateCPFRegex",
             criteria |-> <<Criterion("allowOptionalSymbols",
                                      "Permitir símbolos opcionais", TRUE)>>]
       [] k = "cep" ->
            [name |-> "CEP", generator |-> "generateCEPRegex",
             criteria |-> <<Criterion("allowOptionalSymbols",
                                      "Permitir símbolos opcionais", TRUE)>>]
       [] k = "uuid" ->
            [name |-> "UUID v4", generator |-> "generateUUIDRegex", criteria |-> <<>>]
       [] k = "ipv4" ->
            [name |-> "IPv4 (Endereço)", generator |-> "generateIPv4Regex",
             criteria |-> <<Criterion("allowCIDR",
                                      "Permitir sufixo CIDR (ex: /24)", FALSE)>>]]

\* Calling the function a descriptor's generator field refers to.
Apply(generator, a) ==
  CASE generator = "generateEmailRegex" -> generateEmailRegex(a)
    [] generator = "generateCPFRegex" -> generateCPFRegex(a)
    [] generator = "generateCEPRegex" -> generateCEPRegex(a)
    [] generator = "generateUUIDRegex" -> generateUUIDRegex
    [] generator = "generateIPv4Regex" -> generateIPv4Regex(a)

(***************************************************************************)
(* Compiling a pattern: the part of the regular-expression grammar the     *)
(* generated patterns use.  A node is a record                             *)
(*   [t, cs, lo, hi, kids]                                                 *)
(* with t in {"cls", "bol", "eol", "seq", "alt", "rep"}: a character set,  *)
(* the two anchors, a sequence, an alternation, and a repetition of        *)
(* kids[1] between lo and hi times (hi = Unbounded: no upper limit).       *)
(***************************************************************************)
Unbounded == -1

Node(t, cs, lo, hi, kids) == [t |-> t, cs |-> cs, lo |-> lo, hi |-> hi, kids |-> kids]

\* Under the i flag a character matches when its canonical form does.
FoldCase(cs, ic) ==
  IF ic THEN {c \in AsciiSet : \E x \in cs : Canonicalize(x) = Canonicalize(c)} ELSE cs

ClassNode(cs, ic) == Node("cls", FoldCase(cs, ic), 1, 1, <<>>)

Parsed(node, next) == [node |-> node, next |-> next]

RECURSIVE ParseNumber(_, _, _)
ParseNumber(p, i, acc) ==
  IF i <= Len(p) /\ p[i] \in DigitChars
  THEN ParseNumber(p, i + 1, acc * 10 + DigitValue(p[i]))
  ELSE [val |-> acc, next |-> i]

\* A quantifier at p[i], if there is one: + ? * {n} {n,} {n,m}.
ParseQuantifier(p, i) ==
  LET none == [found |-> FALSE, lo |-> 1, hi |-> 1, next |-> i]
      some(lo, hi, next) == [found |-> TRUE, lo |-> lo, hi |-> hi, next |-> next]
  IN  IF i > Len(p) THEN none
      ELSE CASE p[i] = "+" -> some(1, Unbounded, i + 1)
             [] p[i] = "?" -> some(0, 1, i + 1)
             [] p[i] = "*" -> some(0, Unbounded, i + 1)
             [] p[i] = "{" ->
                  LET n == ParseNumber(p, i + 1, 0)
                  IN  IF p[n.next] = "}" THEN some(n.val, n.val, n.next + 1)
                      ELSE IF p[n.next + 1] = "}" THEN some(n.val, Unbounded, n.next + 2)
                      ELSE LET m == ParseNumber(p, n.next + 1, 0)
                           IN  some(n.val, m.val, m.next + 1)
             [] OTHER -> none

\* The members of a character class, from after its [ to its ].
RECURSIVE ParseClass(_, _, _, _)
ParseClass(p, i, ic, acc) ==
  IF p[i] = "]" THEN Parsed(ClassNode(acc, ic), i + 1)
  ELSE LET esc == p[i] = "\\"
           c == IF esc THEN p[i + 1] ELSE p[i]
           j == IF esc THEN i + 2 ELSE i + 1
       IN  IF esc /\ c = "d" THEN ParseClass(p, j, ic, acc \cup DigitChars)
           ELSE IF j + 1 <= Len(p) /\ p[j] = "-" /\ p[j + 1] # "]"
                THEN ParseClass(p, j + 2, ic, acc \cup CharRange(c, p[j + 1]))
                ELSE ParseClass(p, j, ic, acc \cup {c})

RECURSIVE ParseDisjunction(_, _, _)
RECURSIVE ParseAlternatives(_, _, _, _)
RECURSIVE ParseAlternative(_, _, _, _)
RECURSIVE ParseTerm(_, _, _)
RECURSIVE ParseAtom(_, _, _)

ParseAtom(p, i, ic) ==
  CASE p[i] = "^" -> Parsed(Node("bol", {}, 1, 1, <<>>), i + 1)
    [] p[i] = "$" -> Parsed(Node("eol", {}, 1, 1, <<>>), i + 1)
    [] p[i] = "." -> Parsed(ClassNode(AsciiSet, FALSE), i + 1)
    [] p[i] = "\\" ->
         IF p[i + 1] = "d" THEN Parsed(ClassNode(DigitChars, ic), i + 2)
         ELSE Parsed(ClassNode({p[i + 1]}, ic), i + 2)
    [] p[i] = "[" -> ParseClass(p, i + 1, ic, {})
    [] p[i] = "(" ->
         LET start == IF i + 2 <= Len(p) /\ p[i + 1] = "?" /\ p[i + 2] = ":"
                      THEN i + 3 ELSE i + 1
             d == ParseDisjunction(p, start, ic)
         IN  Parsed(d.node, d.next + 1)
    [] OTHER -> Parsed(ClassNode({p[i]}, ic), i + 1)

ParseTerm(p, i, ic) ==
  LET a == ParseAtom(p, i, ic)
      q == ParseQuantifier(p, a.next)
  IN  IF q.found THEN Parsed(Node("rep", {}, q.lo, q.hi, <<a.node>>), q.next) ELSE a

ParseAlternative(p, i, ic, acc) ==
  IF i > Len(p) \/ p[i] \in {"|", ")"}
  THEN Parsed(Node("seq", {}, 1, 1, acc), i)
  ELSE LET t == ParseTerm(p, i, ic)
       IN  ParseAlternative(p, t.next, ic, Append(acc, t.node))

ParseAlternatives(p, i, ic, alts) ==
  IF i <= Len(p) /\ p[i] = "|"
  THEN LET a == ParseAlternative(p, i + 1, ic, <<>>)
       IN  ParseAlternatives(p, a.next, ic, Append(alts, a.node))
  ELSE Parsed(IF Len(alts) = 1 THEN alts[1] ELSE Node("alt", {}, 1, 1, alts), i)

ParseDisjunction(p, i, ic) ==
  LET a == ParseAlternative(p, i, ic, <<>>)
  IN  ParseAlternatives(p, a.next, ic, <<a.node>>)

HasFlag(flags, f) == \E i \in 1..Len(flags) : flags[i] = f

\* new RegExp(pattern, flags)
Compile(pattern, flags) ==
  LET d == ParseDisjunction(pattern, 1, HasFlag(flags, "i"))
  IN  [source |-> pattern, flags |-> flags, root |-> d.node]

NoRegex == [source |-> <<>>, flags |-> <<>>, root |-> Node("seq", {}, 1, 1, <<>>)]

(***************************************************************************)
(* Matching.  Ends(n, s, i) is the set of positions at which a match of    *)
(* node n that starts at position i of s can end.                          *)
(***************************************************************************)
RECURSIVE Ends(_, _, _)
RECURSIVE SeqEnds(_, _, _, _)
RECURSIVE RepEnds(_, _, _, _, _, _, _)

Ends(n, s, i) ==
  CASE n.t = "cls" -> IF i <= Len(s) /\ s[i] \in n.cs THEN {i + 1} ELSE {}
    [] n.t = "bol" -> IF i = 1 THEN {i} ELSE {}
    [] n.t = "eol" -> IF i = Len(s) + 1 THEN {i} ELSE {}
    [] n.t = "seq" -> SeqEnds(n.kids, s, {i}, 1)
    [] n.t = "alt" -> UNION {Ends(n.kids[k], s, i) : k \in 1..Len(n.kids)}
    [] n.t = "rep" -> RepEnds(n.kids[1], s, {i}, 0, n.lo, n.hi, {})

SeqEnds(kids, s, from, k) ==
  IF k > Len(kids) \/ from = {} THEN from
  ELSE SeqEnds(kids, s, UNION {Ends(kids[k], s, j) : j \in from}, k + 1)

\* from: the positions reached after exactly c repetitions; acc: the ends found.
RepEnds(kid, s, from, c, lo, hi, acc) ==
  LET ends == IF c >= lo THEN acc \cup from ELSE acc
  IN  IF from = {} \/ c = hi THEN ends
      ELSE LET nxt == UNION {Ends(kid, s, j) : j \in from}
           IN  RepEnds(kid, s, IF c >= lo THEN nxt \ ends ELSE nxt, c + 1, lo, hi, ends)

\* RegExp.prototype.test without the g flag: a match starting anywhere.
Test(re, s) == \E i \in 1..(Len(s) + 1) : Ends(re.root, s, i) # {}

(***************************************************************************)
(* Looking a category up and calling its generator.                        *)
(***************************************************************************)
NotFound == [found |-> FALSE]

\* getCategory(key): the descriptor registered under key, or NotFound.
getCategory(k) ==
  IF k \in DOMAIN registry THEN [found |-> TRUE, category |-> registry[k]] ELSE NotFound

NoResult == [pattern |-> <<>>, flags |-> <<>>]

NoCall == [key |-> "", passed |-> NoOptions, outcome |-> "none", result |-> NoResult]

\* The ids a category declares in its criteria list.
DeclaredIds(category) == {category.criteria[i].id : i \in 1..Len(category.criteria)}

(***************************************************************************)
(* The inputs.                                                             *)
(***************************************************************************)
MaxOptionKeys == 2

MaxOctetValue == 260

MaxPrefixValue == 40

MaxLeadingZeros == 1

MaxDigitStart == 1

\* Keys a caller may ask for: the registered ones and some that are not.
RequestKeys == {"email", "cpf", "cep", "uuid", "ipv4", "phone", "EMAIL", ""}

\* Option ids a caller may send: every declared one and one no category declares.
OptionIds == {"allowSubdomains", "allowOptionalSymbols", "allowCIDR", "futureOption"}

OptionRecords ==
  UNION {[ids -> BOOLEAN] : ids \in {d \in SUBSET OptionIds : Cardinality(d) <= MaxOptionKeys}}

OptionArgs == {NoOptions} \cup {Given(rec) : rec \in OptionRecords}

\* Every combination of a category's declared criteria, absent ones included.
StdArgs(category) ==
  {NoOptions} \cup
    {Given(rec) : rec \in UNION {[ids -> BOOLEAN] : ids \in SUBSET DeclaredIds(category)}}

DigitChar(d) == Ascii[CodeOf["0"] + d]

RECURSIVE Numeral(_)
Numeral(n) == IF n < 10 THEN <<DigitChar(n)>> ELSE Numeral(n \div 10) \o <<DigitChar(n % 10)>>

Zeros(z) == [i \in 1..z |-> "0"]

\* Every digit of g moved up by k, modulo 10.
ShiftDigits(g, k) == [i \in 1..Len(g) |-> DigitChar((DigitValue(g[i]) + k) % 10)]

\* g cut or padded to len digits.
Resized(g, len) == [i \in 1..len |-> IF i <= Len(g) THEN g[i] ELSE "7"]

RECURSIVE Join(_, _)
Join(parts, sep) ==
  IF Len(parts) = 0 THEN <<>>
  ELSE IF Len(parts) = 1 THEN parts[1]
  ELSE parts[1] \o sep \o Join(Tail(parts), sep)

Concat(parts) == Join(parts, <<>>)

UserAtExampleCom == <<"u", "s", "e", "r", "@", "e", "x", "a", "m", "p", "l", "e", ".", "c", "o", "m">>

UserAtExampleComBr == <<"u", "s", "e", "r", "@", "e", "x", "a", "m", "p", "l", "e", ".", "c", "o", "m", ".", "b", "r">>

EmailLocalPlain == <<"u", "s", "e", "r">>

EmailLocalTagged == <<"F", "i", "r", "s", "t", ".", "L", "a", "s", "t", "+", "t", "a", "g">>

EmailDomainPlain == <<"e", "x", "a", "m", "p", "l", "e">>

EmailDomainDotted == <<"m", "a", "i", "l", ".", "e", "x", "-", "a", "m", "p", "l", "e">>

EmailLocals == {EmailLocalPlain, EmailLocalTagged, <<>>}

EmailDomains == {EmailDomainPlain, EmailDomainDotted, <<>>}

EmailTlds ==
  {<<>>, <<".", "c">>, <<".", "c", "o", "m">>, <<".", "C", "O", "M">>, <<".", "c", "0", "m">>,
   <<".", "c", "o", "m", ".", "b", "r">>, <<".", "c", "o", ".", "u", "k", ".", "b", "r">>}

EmailSubjects ==
  {local \o <<"@">> \o domain \o tld :
     local \in EmailLocals, domain \in EmailDomains, tld \in EmailTlds}

Separators == {<<>>, <<".">>, <<"-">>, <<" ">>}

\* The group lengths tried: the right ones, and each group one short or one long.
GroupLengths(right) ==
  {right} \cup {[right EXCEPT ![g] = right[g] + d] : g \in 1..Len(right), d \in {-1, 1}}

\* The digit groups of a sample, shifted, then cut or padded to the lengths ln.
Groups(sample, st, ln) == [g \in 1..Len(sample) |-> Resized(ShiftDigits(sample[g], st), ln[g])]

CPFSwapped == <<"1", "2", "3", "-", "4", "5", "6", ".", "7", "8", "9", ".", "0", "9">>

CPFLetter == <<"1", "2", "a", ".", "4", "5", "6", ".", "7", "8", "9", "-", "0", "9">>

CPFGroups == <<<<"1", "2", "3">>, <<"4", "5", "6">>, <<"7", "8", "9">>, <<"0", "9">>>>

CPFSubjects ==
  {LET g == Groups(CPFGroups, st, ln) IN Concat(<<g[1], s1, g[2], s2, g[3], s3, g[4]>>) :
     st \in 0..MaxDigitStart, ln \in GroupLengths(<<3, 3, 3, 2>>),
     s1 \in Separators, s2 \in Separators, s3 \in Separators}
    \cup {CPFLetter}

CEPFormatted == <<"0", "1", "3", "1", "0", "-", "1", "0", "0">>

CEPLetter == <<"0", "1", "3", "1", "a", "-", "1", "0", "0">>

CEPGroups == <<<<"0", "1", "3", "1", "0">>, <<"1", "0", "0">>>>

CEPSubjects ==
  {LET g == Groups(CEPGroups, st, ln) IN Concat(<<g[1], s1, g[2]>>) :
     st \in 0..MaxDigitStart, ln \in GroupLengths(<<5, 3>>), s1 \in Separators \cup {<<"-", "-">>}}
    \cup {CEPLetter}

UUIDUpper == <<"5", "5", "0", "E", "8", "4", "0", "0", "-", "E", "2", "9", "B", "-", "4", "1", "D", "4", "-", "A", "7", "1", "6", "-", "4", "4", "6", "6", "5", "5", "4", "4", "0", "0", "0", "0">>

UUIDShort == <<"5", "5", "0", "e", "8", "4", "0", "0", "-", "e", "2", "9", "b", "-", "4", "1", "d", "4", "-", "a", "7", "1", "6", "-", "4", "4", "6", "6", "5", "5", "4", "4", "0", "0", "0">>

\* 550e8400-e29b-41d4-a716-446655440000 with its version digit v and variant digit r.
UUIDGroups(v, r) ==
  <<<<"5", "5", "0", "e", "8", "4", "0", "0">>, <<"e", "2", "9", "b">>, <<v, "1", "d", "4">>,
    <<r, "7", "1", "6">>, <<"4", "4", "6", "6", "5", "5", "4", "4", "0", "0", "0", "0">>>>

UUIDSubjects ==
  {Join(UUIDGroups(v, r), sep) :
     v \in {"3", "4", "5"}, r \in {"7", "8", "9", "a", "B", "c"}, sep \in {<<"-">>, <<>>}}
    \cup {UUIDUpper, UUIDShort}

IPv4Over == <<"2", "5", "6", ".", "0", ".", "0", ".", "1">>

IPv4LeadingZero == <<"0", "1", ".", "0", ".", "0", ".", "1">>

IPv4DoubleZero == <<"0", "0", ".", "0", ".", "0", ".", "1">>

IPv4Net == <<"1", "0", ".", "0", ".", "0", ".", "0">>

IPv4Net33 == <<"1", "0", ".", "0", ".", "0", ".", "0", "/", "3", "3">>

OctetSweep ==
  {Zeros(z) \o Numeral(n) : z \in 0..MaxLeadingZeros, n \in 0..MaxOctetValue}
    \cup {Numeral(n) : n \in {299, 300, 999, 1000, 1255, 2550, 9999}}

OctetFill == {<<"0">>, <<"2", "5", "5">>}

OctetCore == OctetFill \cup {<<"2", "5", "6">>, <<"0", "1">>, <<"1", "0", "0", "0">>, <<"9", "9">>}

PrefixSweep ==
  {Zeros(z) \o Numeral(n) : z \in 0..MaxLeadingZeros, n \in 0..MaxPrefixValue}
    \cup {<<>>, <<"1", "0", "0">>, <<"3", "2", "0">>, <<"2", "4", "/">>, <<"a">>}

IPv4Addresses == {Join(<<g, g, g, g>>, <<".">>) : g \in OctetFill} \cup {IPv4Net, IPv4Over}

IPv4Subjects ==
  {Join([i \in 1..4 |-> IF i = p THEN g ELSE fill], <<".">>) :
     p \in 1..4, g \in OctetSweep, fill \in OctetFill}
    \cup {Join(<<a, b, c, d>>, <<".">>) :
            a \in OctetCore, b \in OctetCore, c \in OctetCore, d \in OctetCore}
    \cup {addr \o <<"/">> \o pre : addr \in IPv4Addresses, pre \in PrefixSweep}
    \cup {IPv4Over, IPv4LeadingZero, IPv4DoubleZero, <<"/", "2", "4">>,
          <<"1", ".", "2", ".", "3">>, <<"1", ".", "2", ".", "3", ".", "4", ".", "5">>}

Subjects(k) ==
  CASE k = "email" -> EmailSubjects
    [] k = "cpf" -> CPFSubjects
    [] k = "cep" -> CEPSubjects
    [] k = "uuid" -> UUIDSubjects
    [] k = "ipv4" -> IPv4Subjects
    [] OTHER -> {}

(***************************************************************************)
(* The state machine.                                                      *)
(*   registry  the RegexCategories object                                  *)
(*   key       the category key of the last request                        *)
(*   passed    the options argument as it was when the call was made       *)
(*   arg       the same options object after the call                      *)
(*   outcome   "none", "ok" or "NotFound"                                  *)
(*   result    the {pattern, flags} returned                               *)
(*   prev      an earlier call, kept to compare a later one with           *)
(*   regex     the compiled result; subject, matched: the last test        *)
(*   pc        where the caller is: idle, looked-up, generated, compiled,  *)
(*             tested                                                      *)
(***************************************************************************)
Init ==
  /\ registry = RegexCategories
  /\ key = ""
  /\ passed = NoOptions
  /\ arg = NoOptions
  /\ outcome = "none"
  /\ result = NoResult
  /\ prev = NoCall
  /\ regex = NoRegex
  /\ subject = <<>>
  /\ matched = FALSE
  /\ pc = "idle"

\* A lookup alone: nothing is generated.
GetCategory ==
  \E k \in RequestKeys :
    /\ key' = k
    /\ outcome' = IF getCategory(k).found THEN "ok" ELSE "NotFound"
    /\ result' = NoResult
    /\ passed' = NoOptions
    /\ arg' = NoOptions
    /\ pc' = "looked-up"
    /\ UNCHANGED <<registry, prev, regex, subject, matched>>

\* descriptor.generator(options) for the descriptor registered under k.  The
\* generators assign to their own locals only: the registry and the options
\* object are as they were.
Call(k, a) ==
  LET d == getCategory(k)
  IN  /\ key' = k
      /\ passed' = a
      /\ arg' = a
      /\ outcome' = IF d.found THEN "ok" ELSE "NotFound"
      /\ result' = IF d.found THEN Apply(d.category.generator, a) ELSE NoResult
      /\ registry' = registry
      /\ regex' = NoRegex
      /\ subject' = <<>>
      /\ matched' = FALSE
      /\ pc' = "generated"

\* Any key with any options argument.
Generate ==
  \E k \in RequestKeys, a \in OptionArgs :
    /\ Call(k, a)
    /\ UNCHANGED prev

\* A call in a sequence of calls; the call before it may be kept in prev.
GenerateNext ==
  \E k \in DOMAIN registry, keep \in BOOLEAN :
    \E a \in StdArgs(registry[k]) :
      /\ Call(k, a)
      /\ prev' = IF keep \/ pc # "generated" THEN prev
                 ELSE [key |-> key, passed |-> passed, outcome |-> outcome, result |-> result]

\* A registered key with a combination of its declared criteria.
GenerateStd ==
  /\ pc = "idle"
  /\ \E k \in DOMAIN registry :
       \E a \in StdArgs(registry[k]) :
         /\ Call(k, a)
         /\ UNCHANGED prev

\* The caller compiles what it got.
CompileResult ==
  /\ pc = "generated"
  /\ outcome = "ok"
  /\ regex' = Compile(result.pattern, result.flags)
  /\ pc' = "compiled"
  /\ UNCHANGED <<registry, key, passed, arg, outcome, result, prev, subject, matched>>

\* The caller tests a sample text.  A regex without the g flag keeps no state
\* between tests, so one test per compilation shows them all.
TestSubject ==
  /\ pc = "compiled"
  /\ \E s \in Subjects(key) :
       /\ subject' = s
       /\ matched' = Test(regex, s)
  /\ pc' = "tested"
  /\ UNCHANGED <<registry, key, passed, arg, outcome, result, prev, regex>>

\* The caller starts over.
Reset ==
  /\ pc = "tested"
  /\ key' = ""
  /\ passed' = NoOptions
  /\ arg' = NoOptions
  /\ outcome' = "none"
  /\ result' = NoResult
  /\ regex' = NoRegex
  /\ subject' = <<>>
  /\ matched' = FALSE
  /\ pc' = "idle"
  /\ UNCHANGED <<registry, prev>>

Next == GetCategory \/ Generate

Spec == Init /\ [][Next]_vars

NextSeq == GenerateNext

SpecSeq == Init /\ [][NextSeq]_vars

NextMatch == GenerateStd \/ CompileResult \/ TestSubject \/ Reset

SpecMatch == Init /\ [][NextMatch]_vars

(***************************************************************************)
(* What the claims are stated with.                                        *)
(***************************************************************************)
\* The options argument of the last call sets id to true.
OptionOn(id) == passed.present /\ id \in DOMAIN passed.value /\ passed.value[id] = TRUE

Tested(k) == pc = "tested" /\ key = k

DecimalDigits == {"0", "1", "2", "3", "4", "5", "6", "7", "8", "9"}

IsDigits(g) == Len(g) >= 1 /\ \A i \in 1..Len(g) : g[i] \in DecimalDigits

RECURSIVE ValueOf(_)
ValueOf(g) == IF Len(g) = 0 THEN 0 ELSE 10 * ValueOf(SubSeq(g, 1, Len(g) - 1)) + DigitValue(g[Len(g)])

\* g is the decimal numeral, without a leading zero, of an integer in 0..max.
IsNumeralUpTo(g, max) ==
  /\ IsDigits(g)
  /\ (Len(g) = 1 \/ g[1] # "0")
  /\ ValueOf(g) <= max

\* The pieces of s between the occurrences of the character sep.
RECURSIVE SplitFrom(_, _, _, _)
SplitFrom(s, sep, i, piece) ==
  IF i > Len(s) THEN <<piece>>
  ELSE IF s[i] = sep THEN <<piece>> \o SplitFrom(s, sep, i + 1, <<>>)
  ELSE SplitFrom(s, sep, i + 1, Append(piece, s[i]))

Split(s, sep) == SplitFrom(s, sep, 1, <<>>)

Contains(s, c) == \E i \in 1..Len(s) : s[i] = c

\* Four dot-separated groups of one to four digits.
IsFourGroups(s) ==
  LET g == Split(s, ".")
  IN  Len(g) = 4 /\ \A i \in 1..4 : IsDigits(g[i]) /\ Len(g[i]) <= 4

IsAddress(s) ==
  LET g == Split(s, ".")
  IN  Len(g) = 4 /\ \A i \in 1..4 : IsNumeralUpTo(g[i], 255)

\* s is lens[1] digits, seps[1], lens[2] digits, ..., where the separator after
\* group i is there when mask[i] holds.
HasLayout(s, lens, seps, mask) ==
  LET pieces == [k \in 1..(2 * Len(lens) - 1) |->
                   IF k % 2 = 1 THEN [i \in 1..lens[(k + 1) \div 2] |-> "digit"]
                   ELSE IF mask[k \div 2] THEN <<seps[k \div 2]>> ELSE <<>>]
      layout == Concat(pieces)
  IN  /\ Len(s) = Len(layout)
      /\ \A i \in 1..Len(s) :
           IF layout[i] = "digit" THEN s[i] \in DecimalDigits ELSE s[i] = layout[i]

IsStrict(s, lens, seps) == HasLayout(s, lens, seps, [i \in 1..Len(seps) |-> TRUE])

IsRelaxed(s, lens, seps) == \E mask \in [1..Len(seps) -> BOOLEAN] : HasLayout(s, lens, seps, mask)

Restrict(rec, ids) == [id \in (DOMAIN rec) \cap ids |-> rec[id]]

Extend(rec, id, v) == [x \in (DOMAIN rec) \cup {id} |-> IF x = id THEN v ELSE rec[x]]

\* The criterion a category's pattern can be widened with.
WideningId ==
  [k \in {"email", "cpf", "cep", "ipv4"} |->
     CASE k = "email" -> "allowSubdomains"
       [] k = "ipv4" -> "allowCIDR"
       [] OTHER -> "allowOptionalSymbols"]

\* What the category's generator returns with that criterion set, and its regex.
Widened == [k \in DOMAIN WideningId |->
              Apply(RegexCategories[k].generator, Given([id \in {WideningId[k]} |-> TRUE]))]

WidenedRegex == [k \in DOMAIN WideningId |-> Compile(Widened[k].pattern, Widened[k].flags)]

RECURSIVE HasAnchor(_)
HasAnchor(n) == n.t \in {"bol", "eol"} \/ \E i \in 1..Len(n.kids) : HasAnchor(n.kids[i])

(***************************************************************************)
(* The claims.                                                             *)
(***************************************************************************)

\* C1: with allowSubdomains false or absent, the email pattern matches
\* "user@example.com" and does not match "user@example.com.br".
C1_EmailDefaultRejectsSecondSuffix ==
  (Tested("email") /\ ~OptionOn("allowSubdomains")) =>
    /\ subject = UserAtExampleCom => matched
    /\ subject = UserAtExampleComBr => ~matched

\* C2: for every registered category and every criterion it declares, a record
\* that omits the criterion gives the same {pattern, flags} as the record with
\* the criterion set to the default the registry declares for it.
C2_OmittedCriterionMeansDeclaredDefault ==
  (pc = "generated" /\ outcome = "ok" /\ passed.present) =>
    LET category == registry[key]
    IN  \A i \in 1..Len(category.criteria) :
          LET c == category.criteria[i]
          IN  c.id \notin DOMAIN passed.value =>
                result = Apply(category.generator, Given(Extend(passed.value, c.id, c.default)))

C4_PatternIsAnchored ==
  pc \in {"compiled", "tested"} =>
    LET p == result.pattern
        kids == regex.root.kids
    IN  /\ Len(p) >= 2
        /\ p[1] = "^"
        /\ p[Len(p)] = "$"
        /\ regex.root.t = "seq"
        /\ Len(kids) >= 2
        /\ kids[1].t = "bol"
        /\ kids[Len(kids)].t = "eol"
        /\ \A i \in 2..(Len(kids) - 1) : ~HasAnchor(kids[i])

C4_Witness == pc = "compiled" /\ key = "ipv4" /\ OptionOn("allowCIDR")

\* C5: with allowCIDR false or absent, four dot-separated groups of one to four
\* digits match the ipv4 pattern exactly when every group is the numeral,
\* without a leading zero, of an integer in 0..255.
C5_OctetsAreZeroTo255 ==
  (Tested("ipv4") /\ ~OptionOn("allowCIDR") /\ IsFourGroups(subject)) =>
    (matched <=> IsAddress(subject))

C5_Witness == Tested("ipv4") /\ ~OptionOn("allowCIDR") /\ subject = IPv4Over /\ ~matched

\* C6: with allowCIDR true, a valid address followed by / and one to three
\* digits matches exactly when the digits are the numeral, without a leading
\* zero, of an integer in 0..32, and the address alone still matches; with
\* allowCIDR false or absent, nothing that contains / matches.
C6_CidrPrefixIsZeroTo32 ==
  Tested("ipv4") =>
    LET parts == Split(subject, "/")
    IN  IF OptionOn("allowCIDR")
        THEN /\ IsAddress(subject) => matched
             /\ (Len(parts) = 2 /\ IsAddress(parts[1]) /\ IsDigits(parts[2]) /\ Len(parts[2]) <= 3)
                  => (matched <=> IsNumeralUpTo(parts[2], 32))
        ELSE Contains(subject, "/") => ~matched

C6_Witness == Tested("ipv4") /\ OptionOn("allowCIDR") /\ subject = IPv4Net33 /\ ~matched

\* C7: for cpf and cep, with allowOptionalSymbols false the pattern matches
\* exactly the strings with every separator present; with it true, exactly the
\* strings with the same digit groups where each separator is there or not at
\* its own position, and is the separator of the strict form.
C7_SeparatorsOnlyInPlace ==
  /\ Tested("cpf") =>
       (matched <=> IF OptionOn("allowOptionalSymbols")
                    THEN IsRelaxed(subject, <<3, 3, 3, 2>>, <<".", ".", "-">>)
                    ELSE IsStrict(subject, <<3, 3, 3, 2>>, <<".", ".", "-">>))
  /\ Tested("cep") =>
       (matched <=> IF OptionOn("allowOptionalSymbols")
                    THEN IsRelaxed(subject, <<5, 3>>, <<"-">>)
                    ELSE IsStrict(subject, <<5, 3>>, <<"-">>))

C7_Witness ==
  Tested("cpf") /\ OptionOn("allowOptionalSymbols") /\ subject = CPFSwapped /\ ~matched

\* C8: a generator called with no options record, an empty record, or any of
\* its declared criteria together with unrecognized keys returns a
\* {pattern, flags}, the one it returns for the record cut down to the declared
\* criteria; with no record, the one for the empty record.
C8_UnrecognizedKeysIgnored ==
  (pc = "generated" /\ key \in DOMAIN RegexCategories) =>
    LET category == RegexCategories[key]
        record == IF passed.present THEN passed.value ELSE EmptyRecord
    IN  /\ outcome = "ok"
        /\ Len(result.pattern) > 0
        /\ result = Apply(category.generator, Given(Restrict(record, DeclaredIds(category))))

C8_Witness ==
  /\ pc = "generated"
  /\ key = "cep"
  /\ passed.present
  /\ DOMAIN passed.value = {"allowOptionalSymbols", "futureOption"}
  /\ passed.value["futureOption"] = TRUE
  /\ outcome = "ok"

C10_CriterionOnlyWidens ==
  (pc = "tested" /\ key \in DOMAIN WideningId /\ ~OptionOn(WideningId[key])) =>
    /\ Widened[key].flags = result.flags
    /\ matched => Test(WidenedRegex[key], subject)

C10_Witness == Tested("cep") /\ ~OptionOn("allowOptionalSymbols") /\ subject = CEPFormatted /\ matched

====
